---------------------------- MODULE Spec2Model ----------------------------
(***************************************************************************)
(* A model of nansat/tools.py (get_random_color, parse_time, add_logger,   *)
(* initial_bearing) and of the command nansat/cli/nansat_geotiffimage.py.  *)
(*                                                                         *)
(* Python strings are sequences of one-character strings, so that parsing  *)
(* and formatting are computed character by character.  Each of the five   *)
(* programs has its own specification (SpecColor, SpecTime, SpecCli,       *)
(* SpecLog, SpecBearing); the variable prog names the program that runs.   *)
(***************************************************************************)
EXTENDS Integers, Sequences, FiniteSets, TLC

VARIABLES
    prog,            \* which program runs: "color", "time", "cli", "log", "bearing"
    \* ---- get_random_color
    gcPc,            \* "call", "parsed", "drawn", "done", "raised"
    c0,              \* the reference colour argument (a string, or None)
    minDist,         \* the minDist argument
    low, high,       \* the low and high arguments of the running frame
    argLow, argHigh, \* the low and high the caller gave to the outermost call
    depth,           \* number of recursive calls made so far (saturating)
    c0rgb,           \* hex2color(c0): numerators of the three floats n/255
    c1rgb,           \* the candidate colour
    c1,              \* the string returned
    gcErr,           \* the exception that ended the call
    \* ---- parse_time
    ptPc,            \* "call", "try", "except", "return", "done", "raised"
    ptArg,           \* the argument given by the caller
    strictZ,         \* whether the installed dateutil rejects a date followed by 'Z'
    time_string,     \* the local variable time_string
    time_value,      \* the local variable time_value (Unbound until assigned)
    ptExcept,        \* whether the except clause ran (the first parse failed)
    ptErr,           \* the exception that ended the call
    \* ---- nansat_geotiffimage
    cliPc,           \* "start", "args", "export", "exit"
    argv,            \* sys.argv: argv[1] is the program name (Python's sys.argv[0])
    bandNo, infileName, outfileName,
    calls,           \* the calls made on the nansat package, in order
    stderr,          \* what was printed on standard error
    exitStatus,      \* the exit status of the process (Unbound while it runs)
    \* ---- add_logger
    environ,         \* os.environ['LOG_LEVEL'] (a string), Unbound when not set
    environ0,        \* its value before the first call
    loggers,         \* logging's registry: name -> logger
    nextId,          \* identity given to the next logger object created
    callLog,         \* the add_logger calls made so far, with their outcomes
    \* ---- initial_bearing
    ibPc,            \* "call", "computed", "done"
    lon1, lat1, lon2, lat2,
    bearing,         \* the arctan2 result in degrees (fixed point)
    ibResult         \* the value returned (fixed point)

colorVars == <<gcPc, c0, minDist, low, high, argLow, argHigh, depth, c0rgb, c1rgb, c1, gcErr>>
timeVars == <<ptPc, ptArg, strictZ, time_string, time_value, ptExcept, ptErr>>
cliVars == <<cliPc, argv, bandNo, infileName, outfileName, calls, stderr, exitStatus>>
logVars == <<environ, environ0, loggers, nextId, callLog>>
bearingVars == <<ibPc, lon1, lat1, lon2, lat2, bearing, ibResult>>

vars == <<prog, colorVars, timeVars, cliVars, logVars, bearingVars>>

(***************************************************************************)
(* Bounds of the model.                                                    *)
(***************************************************************************)
MaxDepth == 2        \* depth counts recursive calls up to this value, then saturates

(***************************************************************************)
(* Python values.                                                          *)
(***************************************************************************)
None == <<"None">>
Unbound == <<"unbound">>
UnboundTime == [unbound |-> TRUE]
NoError == "none"

HexChars == <<"0","1","2","3","4","5","6","7","8","9","a","b","c","d","e","f">>
UpperHexChars == <<"0","1","2","3","4","5","6","7","8","9","A","B","C","D","E","F">>

IsHexChar(ch) == \E i \in 1..16 : HexChars[i] = ch \/ UpperHexChars[i] = ch

HexVal(ch) == (CHOOSE i \in 1..16 : HexChars[i] = ch \/ UpperHexChars[i] = ch) - 1

\* A program that does not run keeps its variables at these values.
IdleColor ==
    /\ gcPc = "idle" /\ c0 = None /\ minDist = 0 /\ low = 0 /\ high = 0
    /\ argLow = 0 /\ argHigh = 0 /\ depth = 0
    /\ c0rgb = Unbound /\ c1rgb = Unbound /\ c1 = Unbound /\ gcErr = NoError

IdleTime ==
    /\ ptPc = "idle" /\ ptArg = <<>> /\ strictZ = FALSE /\ time_string = <<>>
    /\ time_value = UnboundTime /\ ptExcept = FALSE /\ ptErr = NoError

IdleCli ==
    /\ cliPc = "idle" /\ argv = <<>> /\ bandNo = Unbound /\ infileName = Unbound
    /\ outfileName = Unbound /\ calls = <<>> /\ stderr = <<>> /\ exitStatus = Unbound

IdleLog ==
    /\ environ = Unbound /\ environ0 = Unbound /\ loggers = <<>>
    /\ nextId = 0 /\ callLog = <<>>

IdleBearing ==
    /\ ibPc = "idle" /\ lon1 = 0 /\ lat1 = 0 /\ lon2 = 0 /\ lat2 = 0
    /\ bearing = Unbound /\ ibResult = Unbound

(***************************************************************************)
(* get_random_color                                                        *)
(***************************************************************************)
DefaultLow == 0
DefaultHigh == 255
HexScale == 255

\* matplotlib.colors.hex2color: '#rrggbb' to three floats n/255; anything else
\* raises ValueError.  The floats are kept as their numerators n.
hex2color_ok(s) ==
    /\ Len(s) = 7
    /\ s[1] = "#"
    /\ \A i \in 2..7 : IsHexChar(s[i])

hex2color(s) == [i \in 1..3 |-> 16 * HexVal(s[2 * i]) + HexVal(s[2 * i + 1])]

\* np.sum((c0rgb - c1rgb)**2)**0.5 < minDist, for minDist >= 0, where c0rgb[i]
\* stands for the float c0rgb[i]/255 and c1rgb[i] for an integer:
\*     sum (r/255 - c)^2 < m^2   <=>   65025 * (sum c^2 - m^2) < 510 * sum c*r - sum r^2
\* (the right-hand form keeps every intermediate value within 32 bits).
SumSq(t) == t[1] * t[1] + t[2] * t[2] + t[3] * t[3]
Dot(s, t) == s[1] * t[1] + s[2] * t[2] + s[3] * t[3]

TooClose(ref, cand, m) ==
    LET A == SumSq(cand) - m * m
        B == 2 * HexScale * Dot(cand, ref) - SumSq(ref)
    IN  A <= (B - 1) \div (HexScale * HexScale)

\* '%02x' % n
RECURSIVE HexDigits(_)
HexDigits(n) == IF n < 16 THEN <<HexChars[n + 1]>>
                ELSE HexDigits(n \div 16) \o <<HexChars[(n % 16) + 1]>>

Format02x(n) ==
    IF n < 0 THEN <<"-">> \o HexDigits(-n)
    ELSE IF n < 16 THEN <<"0">> \o HexDigits(n)
    ELSE HexDigits(n)

\* '#%02x%02x%02x' % tuple(c1rgb)
FormatColor(t) == <<"#">> \o Format02x(t[1]) \o Format02x(t[2]) \o Format02x(t[3])

\* np.random.randint(low, high) draws from low .. high-1.  Of these values the
\* model draws the two ends and the grid points that lie between them.
GridPoints == {128, 250}
randint(lo, hi) == {v \in lo..(hi - 1) : v \in {lo, hi - 1} \cup GridPoints}

References ==
    { None,
      <<"#","0","0","0","0","0","0">>,
      <<"#","f","f","f","f","f","f">>,
      <<"#","F","F","8","0","0","0">>,
      <<"#","f","f","0","0","g","g">>,
      <<"#","f","f","f">> }
MinDists == {0, 100, 200, 441, 442}
Ranges == { <<0, 255>>, <<0, 256>>, <<100, 200>>, <<250, 300>>, <<255, 255>>, <<-2, 3>> }

InitColor ==
    /\ prog = "color"
    /\ gcPc = "call"
    /\ c0 \in References
    /\ minDist \in MinDists
    /\ \E r \in Ranges : low = r[1] /\ high = r[2] /\ argLow = r[1] /\ argHigh = r[2]
    /\ depth = 0
    /\ c0rgb = Unbound
    /\ c1rgb = Unbound
    /\ c1 = Unbound
    /\ gcErr = NoError
    /\ IdleTime /\ IdleCli /\ IdleLog /\ IdleBearing

\* lines 253-256: default reference, hex2color
get_random_color_parse ==
    /\ prog = "color" /\ gcPc = "call"
    /\ LET ref == IF c0 = None THEN <<"#","0","0","0","0","0","0">> ELSE c0
       IN  /\ c0' = ref
           /\ IF hex2color_ok(ref)
              THEN c0rgb' = hex2color(ref) /\ gcPc' = "parsed" /\ gcErr' = gcErr
              ELSE c0rgb' = c0rgb /\ gcPc' = "raised" /\ gcErr' = "ValueError"
    /\ UNCHANGED <<prog, minDist, low, high, argLow, argHigh, depth, c1rgb, c1>>
    /\ UNCHANGED <<timeVars, cliVars, logVars, bearingVars>>

\* lines 259-261: three draws; randint raises ValueError when low >= high
get_random_color_draw ==
    /\ prog = "color" /\ gcPc = "parsed"
    /\ IF low >= high
       THEN gcPc' = "raised" /\ gcErr' = "ValueError" /\ c1rgb' = c1rgb
       ELSE /\ \E r, g, b \in randint(low, high) : c1rgb' = <<r, g, b>>
            /\ gcPc' = "drawn" /\ gcErr' = gcErr
    /\ UNCHANGED <<prog, c0, minDist, low, high, argLow, argHigh, depth, c0rgb, c1>>
    /\ UNCHANGED <<timeVars, cliVars, logVars, bearingVars>>

\* lines 267-268: the candidate is too close; get_random_color(c0, minDist)
\* is called again, with low and high at their defaults
get_random_color_retry ==
    /\ prog = "color" /\ gcPc = "drawn"
    /\ TooClose(c0rgb, c1rgb, minDist)
    /\ gcPc' = "call"
    /\ low' = DefaultLow /\ high' = DefaultHigh
    /\ depth' = IF depth < MaxDepth THEN depth + 1 ELSE depth
    /\ c1rgb' = Unbound /\ c0rgb' = Unbound
    /\ UNCHANGED <<prog, c0, minDist, argLow, argHigh, c1, gcErr>>
    /\ UNCHANGED <<timeVars, cliVars, logVars, bearingVars>>

\* lines 269-273: the candidate is formatted and returned through every frame
get_random_color_return ==
    /\ prog = "color" /\ gcPc = "drawn"
    /\ ~TooClose(c0rgb, c1rgb, minDist)
    /\ c1' = FormatColor(c1rgb)
    /\ gcPc' = "done"
    /\ UNCHANGED <<prog, c0, minDist, low, high, argLow, argHigh, depth, c0rgb, c1rgb, gcErr>>
    /\ UNCHANGED <<timeVars, cliVars, logVars, bearingVars>>

NextColor ==
    \/ get_random_color_parse
    \/ get_random_color_draw
    \/ get_random_color_retry
    \/ get_random_color_return

SpecColor == InitColor /\ [][NextColor]_vars

\* Fair random draws: a call that can go on does, and a draw of an acceptable
\* candidate that is possible again and again is eventually made.
get_random_color_draw_acceptable ==
    get_random_color_draw /\ gcPc' = "drawn" /\ ~TooClose(c0rgb, c1rgb', minDist)

FairSpecColor ==
    SpecColor /\ WF_vars(NextColor) /\ SF_vars(get_random_color_draw_acceptable)

(***************************************************************************)
(* Claims about get_random_color.                                          *)
(***************************************************************************)
\* The reference as an RGB triple on the 0..255 scale.
ReferenceRGB == hex2color(IF c0 = None THEN <<"#","0","0","0","0","0","0">> ELSE c0)

\* Squared Euclidean distance of two triples on the same scale.
Dist2(s, t) == SumSq([i \in 1..3 |-> s[i] - t[i]])

\* C1: a colour returned by get_random_color has Euclidean distance at least
\* min_distance to the reference, both measured as RGB triples on the 0..255 scale.
C1_ReturnedFarFromReference ==
    (prog = "color" /\ gcPc = "done") =>
        Dist2(ReferenceRGB, c1rgb) >= minDist * minDist

\* C2: every candidate, the first and those drawn after a rejection, and hence
\* the colour returned, has its three channels in the caller's range [low, high].
C2_ChannelsInCallerRange ==
    (prog = "color" /\ gcPc \in {"drawn", "done"}) =>
        \A i \in 1..3 : argLow <= c1rgb[i] /\ c1rgb[i] <= argHigh

\* Some colour with channels in [low, high], both ends included, lies at RGB
\* distance >= min_distance from the reference.  The distance to a fixed point is
\* largest at a corner of the cube, so the corners decide it.
SomeColourFarEnough ==
    /\ hex2color_ok(IF c0 = None THEN <<"#","0","0","0","0","0","0">> ELSE c0)
    /\ argLow <= argHigh
    /\ \E r, g, b \in {argLow, argHigh} :
           Dist2(ReferenceRGB, <<r, g, b>>) >= minDist * minDist

\* C3: whenever some colour with channels in [low, high] lies at RGB distance
\* >= min_distance from the reference, get_random_color eventually returns
\* under fair random draws; in particular with reference '#000000', low = 0 and
\* high = 255 it returns for every min_distance up to 441.  The formula is this
\* instance of the claim.
C3_EventuallyReturns ==
    ( /\ prog = "color"
      /\ c0 \in {None, <<"#","0","0","0","0","0","0">>}
      /\ argLow = 0 /\ argHigh = 255
      /\ minDist <= 441
      /\ SomeColourFarEnough ) => <>(gcPc = "done")

\* '#' followed by six lowercase hexadecimal digits
IsHexColor(s) ==
    /\ Len(s) = 7
    /\ s[1] = "#"
    /\ \A i \in 2..7 : \E k \in 1..16 : HexChars[k] = s[i]

\* C4: every value returned by get_random_color, for any arguments low and high
\* and after any number of rejected candidates, is a string of exactly 7
\* characters: '#' followed by six lowercase hexadecimal digits.
C4_AlwaysSevenChars ==
    (prog = "color" /\ gcPc = "done") => IsHexColor(c1)

\* What does hold: for 0 <= low and high <= 256 every value returned is '#'
\* followed by six lowercase hexadecimal digits, two zero-padded digits for each
\* channel of the accepted candidate.
SevenCharsWithinByteRange ==
    (prog = "color" /\ gcPc = "done" /\ 0 <= argLow /\ argHigh <= 256) =>
        /\ IsHexColor(c1)
        /\ \A i \in 1..3 : 16 * HexVal(c1[2 * i]) + HexVal(c1[2 * i + 1]) = c1rgb[i]

\* A colour with a channel below 16 is returned after a rejection.
ZeroPaddedAfterRetry ==
    /\ prog = "color" /\ gcPc = "done" /\ 0 <= argLow /\ argHigh <= 256
    /\ depth >= 1
    /\ c1rgb[1] < 16 /\ c1rgb[2] >= 16

(***************************************************************************)
(* parse_time                                                              *)
(***************************************************************************)
DigitChars == <<"0","1","2","3","4","5","6","7","8","9">>
IsDigit(ch) == \E i \in 1..10 : DigitChars[i] = ch
DigitVal(ch) == (CHOOSE i \in 1..10 : DigitChars[i] = ch) - 1

AllDigits(s) == \A i \in 1..Len(s) : IsDigit(s[i])

\* the value of a string of decimal digits
RECURSIVE Decimal(_)
Decimal(s) == IF Len(s) = 0 THEN 0
              ELSE 10 * Decimal(SubSeq(s, 1, Len(s) - 1)) + DigitVal(s[Len(s)])

Whitespace == {" ", "\t", "\n"}

\* str.strip()
RECURSIVE lstrip(_)
lstrip(s) == IF Len(s) > 0 /\ s[1] \in Whitespace THEN lstrip(Tail(s)) ELSE s
RECURSIVE rstrip(_)
rstrip(s) == IF Len(s) > 0 /\ s[Len(s)] \in Whitespace
             THEN rstrip(SubSeq(s, 1, Len(s) - 1)) ELSE s
strip(s) == rstrip(lstrip(s))

\* str.endswith('Z')
endswith_Z(s) == Len(s) > 0 /\ s[Len(s)] = "Z"

\* time_string[:10]
date_prefix_whole(s) == s
date_prefix(s) == SubSeq(s, 1, IF Len(s) < 10 THEN Len(s) ELSE 10)

DaysIn(y, m) ==
    IF m = 2 THEN (IF y % 4 = 0 /\ (y % 100 # 0 \/ y % 400 = 0) THEN 29 ELSE 28)
    ELSE IF m \in {4, 6, 9, 11} THEN 30 ELSE 31

\* 'YYYY-MM-DD' naming a day of the calendar
IsDate(s) ==
    /\ Len(s) = 10
    /\ s[5] = "-" /\ s[8] = "-"
    /\ AllDigits(SubSeq(s, 1, 4)) /\ AllDigits(SubSeq(s, 6, 7)) /\ AllDigits(SubSeq(s, 9, 10))
    /\ Decimal(SubSeq(s, 1, 4)) >= 1
    /\ Decimal(SubSeq(s, 6, 7)) \in 1..12
    /\ Decimal(SubSeq(s, 9, 10)) \in 1..DaysIn(Decimal(SubSeq(s, 1, 4)), Decimal(SubSeq(s, 6, 7)))

\* 'HH:MM'
IsClock(s) ==
    /\ Len(s) = 5
    /\ s[3] = ":"
    /\ AllDigits(SubSeq(s, 1, 2)) /\ AllDigits(SubSeq(s, 4, 5))
    /\ Decimal(SubSeq(s, 1, 2)) <= 23
    /\ Decimal(SubSeq(s, 4, 5)) <= 59

\* dateutil.parser.parse on the inputs of the model: a date, a date and a clock
\* time joined by 'T', each with an optional trailing 'Z'.  A date followed by
\* 'Z' alone "is invalid since it has no time, but a timezone" (lines 288-289):
\* whether parse raises ValueError for it depends on the dateutil installed
\* (strict).  Everything else raises ValueError.
parse_ok(s, strict) ==
    \/ IsDate(s)
    \/ Len(s) = 11 /\ IsDate(SubSeq(s, 1, 10)) /\ s[11] = "Z" /\ ~strict
    \/ Len(s) = 16 /\ IsDate(SubSeq(s, 1, 10)) /\ s[11] = "T" /\ IsClock(SubSeq(s, 12, 16))
    \/ Len(s) = 17 /\ IsDate(SubSeq(s, 1, 10)) /\ s[11] = "T" /\ IsClock(SubSeq(s, 12, 16))
                   /\ s[17] = "Z"

parse(s) ==
    [ year   |-> Decimal(SubSeq(s, 1, 4)),
      month  |-> Decimal(SubSeq(s, 6, 7)),
      day    |-> Decimal(SubSeq(s, 9, 10)),
      hour   |-> IF Len(s) >= 16 THEN Decimal(SubSeq(s, 12, 13)) ELSE 0,
      minute |-> IF Len(s) >= 16 THEN Decimal(SubSeq(s, 15, 16)) ELSE 0,
      tzinfo |-> IF endswith_Z(s) THEN "UTC" ELSE "None" ]

TimeBodies ==
    { <<"2","0","2","0","-","0","1","-","0","1">>,
      <<"2","0","2","0","-","0","1","-","0","1","Z">>,
      <<"1","9","9","9","-","1","2","-","3","1","Z">>,
      <<"2","0","2","1","-","0","2","-","2","9","Z">>,
      <<"2","0","2","0","-","0","1","-","0","1","T","1","0",":","3","0">>,
      <<"2","0","2","0","-","0","1","-","0","1","T","1","0",":","3","0","Z">>,
      <<"2","0","2","0","-","0","1","-","0","1"," ","Z">>,
      <<"2","0","2","0","-","1","-","1","Z">>,
      <<"n","o","t"," ","a"," ","d","a","t","e","Z">>,
      <<"g","a","r","b","a","g","e">>,
      <<>> }
TimePadding == { <<>>, <<" ">>, <<"\t", "\n">> }

InitTime ==
    /\ prog = "time"
    /\ ptPc = "call"
    /\ \E body \in TimeBodies, lead \in TimePadding, trail \in TimePadding :
           ptArg = lead \o body \o trail
    /\ strictZ \in BOOLEAN
    /\ time_string = ptArg
    /\ time_value = UnboundTime
    /\ ptExcept = FALSE
    /\ ptErr = NoError
    /\ IdleColor /\ IdleCli /\ IdleLog /\ IdleBearing

\* line 287
parse_time_strip ==
    /\ prog = "time" /\ ptPc = "call"
    /\ time_string' = strip(time_string)
    /\ ptPc' = "try"
    /\ UNCHANGED <<prog, ptArg, strictZ, time_value, ptExcept, ptErr>>
    /\ UNCHANGED <<colorVars, cliVars, logVars, bearingVars>>

\* lines 290-292
parse_time_try ==
    /\ prog = "time" /\ ptPc = "try"
    /\ IF parse_ok(time_string, strictZ)
       THEN time_value' = parse(time_string) /\ ptPc' = "return" /\ ptExcept' = FALSE
       ELSE time_value' = time_value /\ ptPc' = "except" /\ ptExcept' = TRUE
    /\ UNCHANGED <<prog, ptArg, strictZ, time_string, ptErr>>
    /\ UNCHANGED <<colorVars, cliVars, logVars, bearingVars>>

\* lines 293-295: a ValueError of the second parse leaves the function
parse_time_except ==
    /\ prog = "time" /\ ptPc = "except"
    /\ IF Len(time_string) = 11 /\ endswith_Z(time_string)
       THEN IF parse_ok(date_prefix(time_string), strictZ)
            THEN time_value' = parse(date_prefix(time_string)) /\ ptPc' = "return"
                 /\ ptErr' = ptErr
            ELSE time_value' = time_value /\ ptPc' = "raised" /\ ptErr' = "ValueError"
       ELSE time_value' = time_value /\ ptPc' = "return" /\ ptErr' = ptErr
    /\ UNCHANGED <<prog, ptArg, strictZ, time_string, ptExcept>>
    /\ UNCHANGED <<colorVars, cliVars, logVars, bearingVars>>

\* line 297: reading a local variable that was never assigned raises
\* UnboundLocalError
parse_time_return ==
    /\ prog = "time" /\ ptPc = "return"
    /\ IF time_value = UnboundTime
       THEN ptPc' = "raised" /\ ptErr' = "UnboundLocalError"
       ELSE ptPc' = "done" /\ ptErr' = ptErr
    /\ UNCHANGED <<prog, ptArg, strictZ, time_string, time_value, ptExcept>>
    /\ UNCHANGED <<colorVars, cliVars, logVars, bearingVars>>

NextTime ==
    \/ parse_time_strip
    \/ parse_time_try
    \/ parse_time_except
    \/ parse_time_return

SpecTime == InitTime /\ [][NextTime]_vars

(***************************************************************************)
(* Claims about parse_time.                                                *)
(***************************************************************************)
PtEnded == prog = "time" /\ ptPc \in {"done", "raised"}

\* the stripped input is a date-only string followed by a bare 'Z'
IsDateZ(s) == Len(s) = 11 /\ s[11] = "Z" /\ IsDate(SubSeq(s, 1, 10))

\* C5: when the first parse of the stripped input fails and that input is a
\* date-only string followed by a bare 'Z', parse_time succeeds and returns the
\* result of parsing the first 10 characters: that date, the time defaulted.
C5_DateZRecovered ==
    (PtEnded /\ ptExcept /\ IsDateZ(strip(ptArg))) =>
        /\ ptPc = "done"
        /\ time_value = parse(SubSeq(strip(ptArg), 1, 10))
        /\ time_value.year = Decimal(SubSeq(strip(ptArg), 1, 4))
        /\ time_value.month = Decimal(SubSeq(strip(ptArg), 6, 7))
        /\ time_value.day = Decimal(SubSeq(strip(ptArg), 9, 10))
        /\ time_value.hour = 0 /\ time_value.minute = 0

\* '2020-01-01Z' given with surrounding whitespace is recovered as 2020-01-01.
C5_Witness ==
    /\ PtEnded /\ ptExcept /\ ptPc = "done"
    /\ ptArg # time_string
    /\ time_string = <<"2","0","2","0","-","0","1","-","0","1","Z">>
    /\ time_value.year = 2020 /\ time_value.day = 1

\* C6: for every input whose first parse fails and that is not the 11-character
\* date-plus-'Z' shape, parse_time ends with the format error of that failed
\* parse propagated to the caller: no other error, no value returned.
C6_FormatErrorPropagates ==
    (PtEnded /\ ptExcept /\ ~(Len(strip(ptArg)) = 11 /\ endswith_Z(strip(ptArg)))) =>
        (ptPc = "raised" /\ ptErr = "ValueError")

(***************************************************************************)
(* nansat_geotiffimage                                                     *)
(***************************************************************************)
\* int(s) of a string: surrounding whitespace, an optional sign, decimal
\* digits; anything else raises ValueError
int_digits(s) ==
    LET t == strip(s)
    IN  IF Len(t) > 0 /\ t[1] \in {"+", "-"} THEN Tail(t) ELSE t

int_ok(s) == Len(int_digits(s)) > 0 /\ AllDigits(int_digits(s))

int(s) ==
    LET t == strip(s)
    IN  IF t[1] = "-" THEN 0 - Decimal(int_digits(s)) ELSE Decimal(int_digits(s))

\* line 13: sys.exit(message) prints the message on standard error and ends
\* the process with status 1
UsageMessage == "Usage: nansat_geotiffimage <band> <input_file> <output_file>"

Usage ==
    /\ stderr' = Append(stderr, UsageMessage)
    /\ exitStatus' = 1
    /\ cliPc' = "exit"

\* lines 19-24: the body of the try block on sys.argv, av[k + 1] being
\* sys.argv[k]; raised when int() raises ValueError or sys.argv[3] raises
\* IndexError
main_try_short(av) ==
    IF int_ok(av[2])
    THEN [raised |-> FALSE, bandNo |-> int(av[2]), infileName |-> av[2], outfileName |-> av[3]]
    ELSE [raised |-> TRUE]

main_try(av) ==
    IF int_ok(av[2]) /\ Len(av) >= 4
    THEN [raised |-> FALSE, bandNo |-> int(av[2]), infileName |-> av[3], outfileName |-> av[4]]
    ELSE [raised |-> TRUE]

ArgTokens ==
    { <<"1","2">>, <<"-","1">>, <<" ","7">>, <<"1",".","5">>, <<"a",".","n","c">> }
ProgramName == <<"n","a","n","s","a","t","_","g","e","o","t","i","f","f","i","m","a","g","e">>

\* the most positional arguments a command line of the model has
MaxArgs == 4

InitCli ==
    /\ prog = "cli"
    /\ cliPc = "start"
    /\ \E n \in 0..MaxArgs : \E args \in [1..n -> ArgTokens] : argv = <<ProgramName>> \o args
    /\ bandNo = Unbound /\ infileName = Unbound /\ outfileName = Unbound
    /\ calls = <<>>
    /\ stderr = <<>>
    /\ exitStatus = Unbound
    /\ IdleColor /\ IdleTime /\ IdleLog /\ IdleBearing

\* lines 16-17
main_check_argc ==
    /\ prog = "cli" /\ cliPc = "start"
    /\ IF Len(argv) <= 2
       THEN Usage
       ELSE cliPc' = "args" /\ UNCHANGED <<stderr, exitStatus>>
    /\ UNCHANGED <<prog, argv, bandNo, infileName, outfileName, calls>>
    /\ UNCHANGED <<colorVars, timeVars, logVars, bearingVars>>

\* lines 19-24
main_parse_args ==
    /\ prog = "cli" /\ cliPc = "args"
    /\ IF main_try(argv).raised
       THEN Usage /\ UNCHANGED <<bandNo, infileName, outfileName>>
       ELSE /\ bandNo' = main_try(argv).bandNo
            /\ infileName' = main_try(argv).infileName
            /\ outfileName' = main_try(argv).outfileName
            /\ cliPc' = "export"
            /\ UNCHANGED <<stderr, exitStatus>>
    /\ UNCHANGED <<prog, argv, calls>>
    /\ UNCHANGED <<colorVars, timeVars, logVars, bearingVars>>

\* lines 26-27, then the end of the script: exit status 0
main_export ==
    /\ prog = "cli" /\ cliPc = "export"
    /\ calls' = calls \o
           << [op |-> "Nansat", fileName |-> infileName],
              [op |-> "write_geotiffimage", dataset |-> infileName,
               fileName |-> outfileName, bandID |-> bandNo] >>
    /\ exitStatus' = 0
    /\ cliPc' = "exit"
    /\ UNCHANGED <<prog, argv, bandNo, infileName, outfileName, stderr>>
    /\ UNCHANGED <<colorVars, timeVars, logVars, bearingVars>>

NextCli ==
    \/ main_check_argc
    \/ main_parse_args
    \/ main_export

SpecCli == InitCli /\ [][NextCli]_vars

(***************************************************************************)
(* Claims about nansat_geotiffimage.                                       *)
(***************************************************************************)
\* the positional arguments of the command line
Positional == Tail(argv)

\* a band argument that Python reads as an integer
IsIntegerText(s) ==
    \E i \in 1..Len(s), j \in 1..Len(s) :
        /\ i <= j
        /\ \A k \in 1..(i - 1) : s[k] \in Whitespace
        /\ \A k \in (j + 1)..Len(s) : s[k] \in Whitespace
        /\ \/ AllDigits(SubSeq(s, i, j))
           \/ i < j /\ s[i] \in {"+", "-"} /\ AllDigits(SubSeq(s, i + 1, j))

\* C7: the command prints the usage message and ends with an error exit,
\* without opening the input or calling the export, whenever fewer than 3
\* positional arguments are given or the band argument is not an integer; in
\* every other case it calls write_geotiffimage exactly once, with
\* (output_file, band), on the dataset opened from input_file.
C7_UsageOrExport ==
    /\ (prog = "cli" /\ cliPc # "exit") => (calls = <<>> /\ stderr = <<>>)
    /\ (prog = "cli" /\ cliPc = "exit") =>
          IF Len(Positional) < 3 \/ ~IsIntegerText(Positional[1])
          THEN /\ stderr = <<UsageMessage>>
               /\ exitStatus = 1
               /\ calls = <<>>
          ELSE /\ stderr = <<>>
               /\ exitStatus = 0
               /\ Len(calls) = 2
               /\ calls[1] = [op |-> "Nansat", fileName |-> Positional[2]]
               /\ calls[2].op = "write_geotiffimage"
               /\ calls[2].dataset = Positional[2]
               /\ calls[2].fileName = Positional[3]
               /\ calls[2].bandID = int(Positional[1])

\* Band ' 7', an input and an output: one export of band 7.
C7_Witness ==
    /\ prog = "cli" /\ cliPc = "exit"
    /\ Len(Positional) = 3
    /\ Positional[1] = <<" ","7">>
    /\ Len(calls) = 2 /\ calls[2].bandID = 7
    /\ exitStatus = 0

(***************************************************************************)
(* add_logger                                                              *)
(***************************************************************************)
\* str(n) of a non-negative integer
RECURSIVE str(_)
str(n) == IF n < 10 THEN <<DigitChars[n + 1]>>
          ELSE str(n \div 10) \o <<DigitChars[(n % 10) + 1]>>

LogNames == {"", "nansat", "nansat.vrt"}
\* the logLevel argument: None, or a level
NoLevel == [given |-> FALSE, value |-> 0]
Level(n) == [given |-> TRUE, value |-> n]
LogLevels == {Level(10), Level(40)}

\* the most add_logger calls a run of the model makes
MaxCalls == 3

\* a logger that logging has not created yet
NoLogger == [exists |-> FALSE, id |-> 0, level |-> 0, handlers |-> <<>>]

\* logging.getLogger(name): the logger registered under the name, created
\* (level NOTSET, no handlers) when there is none
getLogger(reg, name, id) ==
    IF reg[name].exists THEN reg[name]
    ELSE [exists |-> TRUE, id |-> id, level |-> 0, handlers |-> <<>>]

\* lines 211-212
setenv_skipped(env, logLevel) == env
setenv(env, logLevel) == IF logLevel.given THEN str(logLevel.value) ELSE env

\* line 220
needs_handler_always(logger) == TRUE
needs_handler(logger) == Len(logger.handlers) = 0

\* lines 220-230: logging.StreamHandler() with the Nansat formatter
with_handler(logger) ==
    IF needs_handler(logger)
    THEN [logger EXCEPT !.handlers =
              Append(@, [level |-> 0, formatter |-> "%(asctime)s|%(levelno)s|%(module)s|%(funcName)s|%(message)s"])]
    ELSE logger

\* The root logger exists from the start, at level WARNING; LOG_LEVEL is set
\* or not.
InitLog ==
    /\ prog = "log"
    /\ environ \in {Unbound, str(30), str(10)}
    /\ environ0 = environ
    /\ loggers = [n \in LogNames |->
                    IF n = "" THEN [exists |-> TRUE, id |-> 0, level |-> 30, handlers |-> <<>>]
                    ELSE NoLogger]
    /\ nextId = 1
    /\ callLog = <<>>
    /\ IdleColor /\ IdleTime /\ IdleCli /\ IdleBearing

\* lines 211-234.  os.environ['LOG_LEVEL'] raises KeyError when the variable
\* is not set: the logger has been created by then, its level is not yet set.
add_logger(logName, logLevel) ==
    /\ prog = "log"
    /\ Len(callLog) < MaxCalls
    /\ LET env == setenv(environ, logLevel)
           logger == getLogger(loggers, logName, nextId)
       IN  /\ environ' = env
           /\ nextId' = IF loggers[logName].exists THEN nextId ELSE nextId + 1
           /\ IF env = Unbound
              THEN /\ loggers' = [loggers EXCEPT ![logName] = logger]
                   /\ callLog' = Append(callLog, [logName |-> logName, logLevel |-> logLevel,
                                                  outcome |-> "KeyError", id |-> logger.id])
              ELSE /\ loggers' = [loggers EXCEPT ![logName] =
                          LET levelled == [logger EXCEPT !.level = int(env)]
                          IN  [with_handler(levelled) EXCEPT !.handlers[1].level = int(env)]]
                   /\ callLog' = Append(callLog, [logName |-> logName, logLevel |-> logLevel,
                                                  outcome |-> "returned", id |-> logger.id])
    /\ UNCHANGED <<prog, environ0>>
    /\ UNCHANGED <<colorVars, timeVars, cliVars, bearingVars>>

NextLog == \E logName \in LogNames, logLevel \in LogLevels \cup {NoLevel} :
               add_logger(logName, logLevel)

SpecLog == InitLog /\ [][NextLog]_vars

(***************************************************************************)
(* Claims about add_logger.                                                *)
(***************************************************************************)
\* the calls, by their position in callLog, that returned a logger of this name
ReturnedCalls(name) ==
    {i \in 1..Len(callLog) : callLog[i].logName = name /\ callLog[i].outcome = "returned"}

LastCall == callLog[Len(callLog)]

\* C8: after any sequence of add_logger calls (starting from loggers without
\* handlers) every logger obtained has exactly one handler: a repeated call for
\* the same name returns the same logger, adds no second handler, and sets the
\* logger's level and the handler's level to the level in force for the call.
C8_OneHandlerPerLogger ==
    prog = "log" =>
        /\ \A n \in LogNames : ReturnedCalls(n) # {} =>
              /\ Len(loggers[n].handlers) = 1
              /\ loggers[n].handlers[1].level = loggers[n].level
        /\ \A i, j \in 1..Len(callLog) :
              callLog[i].logName = callLog[j].logName => callLog[i].id = callLog[j].id
        /\ (Len(callLog) > 0 /\ LastCall.outcome = "returned") =>
              /\ loggers[LastCall.logName].id = LastCall.id
              /\ loggers[LastCall.logName].level =
                    (IF LastCall.logLevel.given THEN LastCall.logLevel.value ELSE int(environ))

\* A logger is obtained three times, at two different levels.
C8_Witness ==
    /\ prog = "log" /\ Len(callLog) = 3
    /\ \A i \in 1..3 : callLog[i].logName = "nansat" /\ callLog[i].outcome = "returned"
    /\ callLog[1].logLevel = Level(10) /\ callLog[2].logLevel = Level(40)
    /\ callLog[3].logLevel = NoLevel
    /\ Len(loggers["nansat"].handlers) = 1
    /\ loggers["nansat"].level = 40

\* The level in force at call i: that of the most recent call, up to i, that gave
\* an explicit level (whatever its name); before any, LOG_LEVEL as it was at the
\* start.  NoLevel when there is neither.
RECURSIVE LevelInForce(_)
LevelInForce(i) ==
    IF i = 0 THEN (IF environ0 = Unbound THEN NoLevel ELSE Level(int(environ0)))
    ELSE IF callLog[i].logLevel.given THEN callLog[i].logLevel
    ELSE LevelInForce(i - 1)

Latest(S) == CHOOSE i \in S : \A j \in S : j <= i

\* C10: an explicit level overwrites the process-wide LOG_LEVEL and a call
\* without a level leaves it unchanged and uses it: a call without a level sets
\* its logger and handler to the level of the most recent call that gave one,
\* for whatever name, and loggers of other names keep the level they were last
\* configured with.
C10_LevelFollowsLastExplicit ==
    prog = "log" =>
        /\ environ = (IF LevelInForce(Len(callLog)).given
                      THEN str(LevelInForce(Len(callLog)).value) ELSE Unbound)
        /\ \A i \in 1..Len(callLog) :
              (callLog[i].outcome = "KeyError") <=> ~LevelInForce(i).given
        /\ \A n \in LogNames : ReturnedCalls(n) # {} =>
              /\ loggers[n].level = LevelInForce(Latest(ReturnedCalls(n))).value
              /\ loggers[n].handlers[1].level = LevelInForce(Latest(ReturnedCalls(n))).value

\* 'nansat' is configured at 40, then '' at 10, then 'nansat.vrt' without a
\* level: it gets 10, and 'nansat' keeps 40.
C10_Witness ==
    /\ prog = "log" /\ Len(callLog) = 3
    /\ environ0 = str(30)
    /\ callLog[1].logName = "nansat" /\ callLog[1].logLevel = Level(40)
    /\ callLog[2].logName = "" /\ callLog[2].logLevel = Level(10)
    /\ callLog[3].logName = "nansat.vrt" /\ callLog[3].logLevel = NoLevel
    /\ loggers["nansat.vrt"].level = 10
    /\ loggers["nansat"].level = 40

(***************************************************************************)
(* initial_bearing                                                         *)
(*                                                                         *)
(* Coordinates are multiples of 90 degrees, where sine and cosine are -1,  *)
(* 0 or 1 and the arctangent is a multiple of 45 degrees.  Angles are      *)
(* fixed-point numbers, Resolution units to the degree.  The floating-     *)
(* point evaluation of np.sin, np.cos, np.arctan2 and np.degrees gives the *)
(* exact angle up to a rounding error of one unit, within arctan2's range  *)
(* [-180, 180]; a floating-point sum of 256 or more is rounded to the      *)
(* spacing of the numbers there (Ulp units, twice that from 512 on).       *)
(***************************************************************************)
Resolution == 4      \* units to the degree
Ulp == 2             \* spacing, in units, of the numbers from 256 to 512

Deg(d) == d * Resolution

\* np.sin(np.radians(a)) and np.cos(np.radians(a)), a a multiple of 90
SinDeg(a) == LET r == a % 360 IN IF r = 90 THEN 1 ELSE IF r = 270 THEN -1 ELSE 0
CosDeg(a) == SinDeg(a + 90)

Sign(v) == IF v > 0 THEN 1 ELSE IF v < 0 THEN -1 ELSE 0

\* np.degrees(np.arctan2(y, x)) for y and x of equal magnitude or zero
Atan2Deg(y, x) ==
    IF y = 0 THEN (IF x < 0 THEN 180 ELSE 0)
    ELSE IF x = 0 THEN 90 * Sign(y)
    ELSE IF x > 0 THEN 45 * Sign(y)
    ELSE 135 * Sign(y)

\* lines 171-174: the two arguments of arctan2
BearingY == SinDeg(lon2 - lon1) * CosDeg(lat2)
BearingX == CosDeg(lat1) * SinDeg(lat2) - SinDeg(lat1) * CosDeg(lat2) * CosDeg(lon2 - lon1)

\* the floating-point results the exact angle a (in units) can come out as
Rounded(a) == {b \in (a - 1)..(a + 1) : Deg(-180) <= b /\ b <= Deg(180)}

\* x rounded to a multiple of step, ties to the even multiple
RoundTo(x, step) ==
    LET q == x \div step
        r == x % step
    IN  IF 2 * r < step THEN q * step
        ELSE IF 2 * r > step THEN (q + 1) * step
        ELSE (IF q % 2 = 0 THEN q ELSE q + 1) * step

\* the floating-point sum a + b of two angles
FloatAdd(a, b) ==
    LET x == a + b
    IN  IF x < Deg(256) THEN x
        ELSE IF x < Deg(512) THEN RoundTo(x, Ulp)
        ELSE RoundTo(x, 2 * Ulp)

\* line 175: mod(np.degrees(bearing) + 360, 360)
normalize_if_negative(b) == IF b < 0 THEN FloatAdd(b, Deg(360)) ELSE b
normalize(b) == FloatAdd(b, Deg(360)) % Deg(360)

Coordinates == {-180, -90, 0, 90, 180}

InitBearing ==
    /\ prog = "bearing"
    /\ ibPc = "call"
    /\ lon1 \in Coordinates /\ lat1 \in Coordinates
    /\ lon2 \in Coordinates /\ lat2 \in Coordinates
    /\ bearing = Unbound
    /\ ibResult = Unbound
    /\ IdleColor /\ IdleTime /\ IdleCli /\ IdleLog

\* lines 167-174
initial_bearing_arctan2 ==
    /\ prog = "bearing" /\ ibPc = "call"
    /\ bearing' \in Rounded(Deg(Atan2Deg(BearingY, BearingX)))
    /\ ibPc' = "computed"
    /\ UNCHANGED <<prog, lon1, lat1, lon2, lat2, ibResult>>
    /\ UNCHANGED <<colorVars, timeVars, cliVars, logVars>>

\* line 175
initial_bearing_return ==
    /\ prog = "bearing" /\ ibPc = "computed"
    /\ ibResult' = normalize(bearing)
    /\ ibPc' = "done"
    /\ UNCHANGED <<prog, lon1, lat1, lon2, lat2, bearing>>
    /\ UNCHANGED <<colorVars, timeVars, cliVars, logVars>>

NextBearing ==
    \/ initial_bearing_arctan2
    \/ initial_bearing_return

SpecBearing == InitBearing /\ [][NextBearing]_vars

(***************************************************************************)
(* Claims about initial_bearing.                                           *)
(***************************************************************************)
\* C9: for all coordinate pairs the result of initial_bearing lies in
\* [0, 360): the raw arctangent angle in degrees lies in [-180, 180] and is
\* passed through (+360) mod 360, so the result is never negative and never
\* equal to 360.
C9_BearingInHalfOpenRange ==
    /\ (prog = "bearing" /\ ibPc \in {"computed", "done"}) =>
          (Deg(-180) <= bearing /\ bearing <= Deg(180))
    /\ (prog = "bearing" /\ ibPc = "done") =>
          (0 <= ibResult /\ ibResult < Deg(360))

\* Heading due west along the equator: the arctangent gives -90, the result
\* is 270.
C9_Witness ==
    /\ prog = "bearing" /\ ibPc = "done"
    /\ lat1 = 0 /\ lat2 = 0 /\ lon1 = 0 /\ lon2 = -90
    /\ bearing = Deg(-90) /\ ibResult = Deg(270)

\* A rounding error below zero sums to 360 and comes out as 0.
RoundingBelowZero ==
    prog = "bearing" /\ ibPc = "done" /\ bearing = -1 /\ ibResult = 0

(***************************************************************************)
(* The five programs together.                                             *)
(***************************************************************************)
Init == InitColor \/ InitTime \/ InitCli \/ InitLog \/ InitBearing

Next == NextColor \/ NextTime \/ NextCli \/ NextLog \/ NextBearing

Spec == Init /\ [][Next]_vars

=============================================================================
